---- MODULE Spec2Model ----
(***************************************************************************)
(* Model of github.com/bengarrett/bbs: the detector (Find), the splitters  *)
(* and HTML renderers of internal/split, and the format registry (BBS).    *)
(*                                                                         *)
(* A text is a sequence of characters; a character is a one-element        *)
(* string, except the named characters "LF", "ESC", "ETX", "GRAVE" (the    *)
(* grave accent) and "SEP" (the rune 65535, the splitters' private marker).*)
(* What a renderer writes to its sink is a sequence of output tokens: the  *)
(* static pieces of the html/template, and one token per character of      *)
(* dynamic text (the character itself, or its HTML entity).                *)
(***************************************************************************)
EXTENDS Integers, Sequences, FiniteSets, TLC

VARIABLES
    src,     \* the text handed to an operation / the content of the reader
    dst,     \* the output sink: NilBuf, or the tokens written so far
    op,      \* the operation that has run ("" before any has)
    fmt,     \* the BBS value the operation was dispatched on or returned
    err,     \* the error the operation returned
    fields,  \* the fragment sequence a splitter call returned
    stream,  \* reader: the characters not yet read from it
    r1,      \* the tee buffer: every character read from the reader
    buf,     \* bufio.Scanner: characters read and not yet consumed as lines
    pc,      \* position of the detector
    ret      \* the value a predicate or a method of BBS returned

vars == <<src, dst, op, fmt, err, fields, stream, r1, buf, pc, ret>>

-----------------------------------------------------------------------------
(* Bounds of the model.                                                    *)

MaxPieces == 2
MaxStreamPieces == 3

\* the longest text made of single characters
MaxChars == 4

-----------------------------------------------------------------------------
(* Characters.                                                             *)

LF  == "LF"
ESC == "ESC"
ETX == "ETX"
SEP == "SEP"
GRAVE == "GRAVE"

Digits   == <<"0", "1", "2", "3", "4", "5", "6", "7", "8", "9">>
Lower    == <<"a", "b", "c", "d", "e", "f", "g", "h", "i", "j", "k", "l", "m",
              "n", "o", "p", "q", "r", "s", "t", "u", "v", "w", "x", "y", "z">>
Upper    == <<"A", "B", "C", "D", "E", "F", "G", "H", "I", "J", "K", "L", "M",
              "N", "O", "P", "Q", "R", "S", "T", "U", "V", "W", "X", "Y", "Z">>
HexChars == <<"0", "1", "2", "3", "4", "5", "6", "7", "8", "9",
              "A", "B", "C", "D", "E", "F">>

Range(s) == {s[i] : i \in 1..Len(s)}

IsDigit(c) == c \in Range(Digits)

DigitVal(c) == (CHOOSE i \in 1..10 : Digits[i] = c) - 1

ToUpper(c) == IF c \in Range(Lower)
              THEN Upper[CHOOSE i \in 1..26 : Lower[i] = c]
              ELSE c

\* [0-9A-F] under (?i)
IsHex(c) == ToUpper(c) \in Range(HexChars)

\* [0-9|A-F] under (?i): the class of TelegardRe and WildcatRe holds the bar
IsHexOrBar(c) == IsHex(c) \/ c = "|"

At(s, i) == IF i >= 1 /\ i <= Len(s) THEN s[i] ELSE ""

Slice(s, i, j) == IF j < i THEN <<>> ELSE SubSeq(s, i, j)

HasPrefixAt(s, i, p) == /\ i + Len(p) - 1 <= Len(s)
                        /\ \A k \in 1..Len(p) : s[i + k - 1] = p[k]

\* bytes.Contains
Contains(s, p) == \E i \in 1..(Len(s) + 1) : HasPrefixAt(s, i, p)

-----------------------------------------------------------------------------
(* Regular expressions.  Every pattern of the package is a fixed prefix    *)
(* followed by a payload of fixed length, so a match is decided at a       *)
(* position; MatchLen is the length of the match starting at i, 0 if none. *)

celerityCodes == <<"k", "b", "g", "c", "r", "m", "y", "w", "d",
                   "B", "G", "C", "R", "M", "Y", "W", "S">>

\* `\|(k|b|g|c|r|m|y|w|d|B|G|C|R|M|Y|W|S)`
CelerityRe(s, i) == IF At(s, i) = "|" /\ At(s, i + 1) \in Range(celerityCodes)
                    THEN 2 ELSE 0

\* "(?i)@X([0-9A-F][0-9A-F])"
PCBoardRe(s, i) == IF /\ At(s, i) = "@"
                      /\ ToUpper(At(s, i + 1)) = "X"
                      /\ IsHex(At(s, i + 2))
                      /\ IsHex(At(s, i + 3))
                   THEN 4 ELSE 0

\* `\|(0[0-9]|1[1-9]|2[0-3])`
VBarsRe(s, i) ==
    LET a == At(s, i + 1)
        b == At(s, i + 2)
    IN  IF /\ At(s, i) = "|"
           /\ \/ a = "0" /\ IsDigit(b)
              \/ a = "1" /\ IsDigit(b) /\ DigitVal(b) >= 1
              \/ a = "2" /\ IsDigit(b) /\ DigitVal(b) <= 3
        THEN 3 ELSE 0

\* `\|(0[0-9]|1[1-9]|2[0-3])`
RenegadeRe(s, i) == VBarsRe(s, i)

\* "(?i)`([0-9|A-F])([0-9|A-F])"
TelegardRe(s, i) == IF /\ At(s, i) = GRAVE
                       /\ IsHexOrBar(At(s, i + 1))
                       /\ IsHexOrBar(At(s, i + 2))
                    THEN 3 ELSE 0

\* `(?i)@([0-9|A-F])([0-9|A-F])@`
WildcatRe(s, i) == IF /\ At(s, i) = "@"
                      /\ IsHexOrBar(At(s, i + 1))
                      /\ IsHexOrBar(At(s, i + 2))
                      /\ At(s, i + 3) = "@"
                   THEN 4 ELSE 0

\* `\|#(\d)`
WWIVHashRe(s, i) == IF At(s, i) = "|" /\ At(s, i + 1) = "#" /\ IsDigit(At(s, i + 2))
                    THEN 3 ELSE 0

\* `\x03(\d)`
WWIVHeartRe(s, i) == IF At(s, i) = ETX /\ IsDigit(At(s, i + 1))
                     THEN 2 ELSE 0

\* `@(CLS|CLS |PAUSE)@`
ControlsRe(s, i) ==
    IF HasPrefixAt(s, i, <<"@", "C", "L", "S", "@">>) THEN 5
    ELSE IF HasPrefixAt(s, i, <<"@", "C", "L", "S", " ", "@">>) THEN 6
    ELSE IF HasPrefixAt(s, i, <<"@", "P", "A", "U", "S", "E", "@">>) THEN 7
    ELSE 0

MatchLen(re, s, i) ==
    CASE re = "CelerityRe"  -> CelerityRe(s, i)
      [] re = "PCBoardRe"   -> PCBoardRe(s, i)
      [] re = "VBarsRe"     -> VBarsRe(s, i)
      [] re = "RenegadeRe"  -> RenegadeRe(s, i)
      [] re = "TelegardRe"  -> TelegardRe(s, i)
      [] re = "WildcatRe"   -> WildcatRe(s, i)
      [] re = "WWIVHashRe"  -> WWIVHashRe(s, i)
      [] re = "WWIVHeartRe" -> WWIVHeartRe(s, i)
      [] re = "ControlsRe"  -> ControlsRe(s, i)

\* The text of the capture groups of the match of re at i, in order ($1$2):
\* every pattern but WildcatRe captures all that follows its prefix.
Groups(re, s, i) ==
    CASE re = "CelerityRe"  -> Slice(s, i + 1, i + 1)
      [] re = "PCBoardRe"   -> Slice(s, i + 2, i + 3)
      [] re = "VBarsRe"     -> Slice(s, i + 1, i + 2)
      [] re = "RenegadeRe"  -> Slice(s, i + 1, i + 2)
      [] re = "TelegardRe"  -> Slice(s, i + 1, i + 2)
      [] re = "WildcatRe"   -> Slice(s, i + 1, i + 2)
      [] re = "WWIVHashRe"  -> Slice(s, i + 2, i + 2)
      [] re = "WWIVHeartRe" -> Slice(s, i + 1, i + 1)
      [] re = "ControlsRe"  -> Slice(s, i + 1, i + MatchLen(re, s, i) - 2)

\* regexp.ReplaceAll with a template of a literal followed by the groups
\* (or by nothing): leftmost matches, left to right, never overlapping.
RECURSIVE ReplaceFrom(_, _, _, _, _)
ReplaceFrom(re, lit, withGroups, s, i) ==
    IF i > Len(s) THEN <<>>
    ELSE LET n == MatchLen(re, s, i)
         IN  IF n > 0
             THEN lit \o (IF withGroups THEN Groups(re, s, i) ELSE <<>>)
                      \o ReplaceFrom(re, lit, withGroups, s, i + n)
             ELSE <<s[i]>> \o ReplaceFrom(re, lit, withGroups, s, i + 1)

ReplaceAll(re, lit, withGroups, s) == ReplaceFrom(re, lit, withGroups, s, 1)

HasMatch(re, s) == \E i \in 1..Len(s) : MatchLen(re, s, i) > 0

-----------------------------------------------------------------------------
(* Formats and errors.                                                     *)

ANSI      == 0
Celerity  == 1
PCBoard   == 2
Renegade  == 3
Telegard  == 4
Wildcat   == 5
WWIVHash  == 6
WWIVHeart == 7

\* the value Find returns when no sequence is found; not a BBS constant
None == -1

Formats == ANSI..WWIVHeart

Transcodable == Formats \ {ANSI}

Nil     == "nil"
ErrANSI == "ansi escape code found"
ErrNone == "no bbs color code found"
ErrBuff == "bytes buffer cannot be nil"
\* a run-time panic (index or slice bounds out of range) ends the call
Panic   == "panic"

\* a nil *bytes.Buffer: a value no sequence of written tokens equals
NilBuf == <<"(nil *bytes.Buffer)">>

\* BBS.Valid
\* BBS.Valid with the last case of its switch missing
ValidShort(b) == b \in {ANSI, Celerity, PCBoard, Renegade, Telegard, Wildcat,
                        WWIVHash}

Valid(b) == b \in {ANSI, Celerity, PCBoard, Renegade, Telegard, Wildcat,
                   WWIVHash, WWIVHeart}

\* ret before any value was returned
NoValue == "(no value)"

\* the array literal of BBS.Name
NameTable == <<"ANSI", "Celerity", "PCBoard", "Renegade", "Telegard",
               "Wildcat!", "WWIV #", "WWIV HEART">>

\* the array literal of BBS.String; the arrow, the grave accent and the
\* heart are written ESC, GRAVE and HEART
StringTable == <<"ANSI ESC[", "Celerity |", "PCBoard @X", "Renegade |",
                 "Telegard GRAVE", "Wildcat! @@", "WWIV |#", "WWIV HEART">>

\* table[b]: an index outside the array aborts the call
Index(table, b) == IF b + 1 \in DOMAIN table THEN table[b + 1] ELSE Panic

\* BBS.Name
Name(b) == IF ~Valid(b) THEN "" ELSE Index(NameTable, b)

\* BBS.String
String(b) == IF ~Valid(b) THEN "" ELSE Index(StringTable, b)

-----------------------------------------------------------------------------
(* Splitters (internal/split).                                             *)

\* bytes.Split(res, sep) followed by the loop that drops the empty values
RECURSIVE SplitSep(_, _)
SplitSep(res, cur) ==
    IF res = <<>>
    THEN IF cur = <<>> THEN <<>> ELSE <<cur>>
    ELSE IF Head(res) = SEP
         THEN (IF cur = <<>> THEN <<>> ELSE <<cur>>) \o SplitSep(Tail(res), <<>>)
         ELSE SplitSep(Tail(res), Append(cur, Head(res)))

\* the body shared by VBars, Celerity and PCBoard
SplitOn(re, s) ==
    LET res == ReplaceAll(re, <<SEP>>, TRUE, s)
    IN  IF SEP \notin Range(res) THEN <<>> ELSE SplitSep(res, <<>>)

VBars(s) == SplitOn("VBarsRe", s)

CelerityFields(s) == SplitOn("CelerityRe", s)

PCBoardFields(s) == SplitOn("PCBoardRe", s)

-----------------------------------------------------------------------------
(* html/template.                                                          *)

\* htmlReplacementTable: the escaper of text nodes and of quoted attributes
EscapeChar(c) ==
    CASE c = "<"  -> "&lt;"
      [] c = ">"  -> "&gt;"
      [] c = "&"  -> "&amp;"
      [] c = "'"  -> "&#39;"
      [] c = "\"" -> "&#34;"
      [] c = "+"  -> "&#43;"
      [] OTHER    -> c

Escape(s) == [i \in 1..Len(s) |-> EscapeChar(s[i])]

\* `<i class="P{{.Background}} P{{.Foreground}}">{{.Content}}</i>`
SpanInt(bg, fg, content) ==
    <<"<i class=\"P", ToString(bg), " P", ToString(fg), "\">">>
        \o Escape(content) \o <<"</i>">>

\* `<i class="PB{{.Background}} PF{{.Foreground}}">{{.Content}}</i>`
SpanStr(bg, fg, content) ==
    <<"<i class=\"PB">> \o Escape(bg) \o <<" PF">> \o Escape(fg) \o <<"\">">>
        \o Escape(content) \o <<"</i>">>

-----------------------------------------------------------------------------
(* Renderers (internal/split).  A renderer returns what the sink holds     *)
(* after the call and the error.                                           *)

Result(d, e) == [dst |-> d, err |-> e]

barBackground(n) == ~(n < 16) /\ ~(n > 23)

\* barForeground with the last value of barBackground
barForegroundWide(n) == ~(n < 0) /\ ~(n > 23)

barForeground(n) == ~(n < 0) /\ ~(n > 15)

\* strconv.Atoi of a two-character string: digits with an optional sign
AtoiOk(t) == \/ IsDigit(t[1]) /\ IsDigit(t[2])
             \/ t[1] \in {"+", "-"} /\ IsDigit(t[2])

Atoi(t) == IF IsDigit(t[1]) THEN 10 * DigitVal(t[1]) + DigitVal(t[2])
           ELSE IF t[1] = "-" THEN 0 - DigitVal(t[2])
           ELSE DigitVal(t[2])

\* the range loop of VBarsHTML, from the k-th fragment on
RECURSIVE VBarsLoop(_, _, _, _, _)
VBarsLoop(bars, k, bg, fg, out) ==
    IF k > Len(bars) THEN Result(out, Nil)
    ELSE LET color == bars[k]
         IN  IF Len(color) < 2 THEN Result(out, Panic)
             ELSE IF ~AtoiOk(Slice(color, 1, 2))
                  THEN VBarsLoop(bars, k + 1, bg, fg, out)
                  ELSE LET val == Atoi(Slice(color, 1, 2))
                           f   == IF barForeground(val) THEN val ELSE fg
                           b   == IF barBackground(val) THEN val ELSE bg
                       IN  VBarsLoop(bars, k + 1, b, f,
                               out \o SpanInt(b, f, Slice(color, 3, Len(color))))

VBarsHTML(d, s) ==
    IF d = NilBuf THEN Result(d, ErrBuff)
    ELSE LET bars == VBars(s)
         IN  IF Len(bars) = 0 THEN Result(d \o s, Nil)
             ELSE VBarsLoop(bars, 1, 0, 0, d)

\* the range loop of CelerityHTML, from the k-th fragment on
RECURSIVE CelerityLoop(_, _, _, _, _, _)
CelerityLoop(bars, k, background, bg, fg, out) ==
    IF k > Len(bars) THEN Result(out, Nil)
    ELSE LET color == bars[k]
         IN  IF color = <<"S">>
             THEN CelerityLoop(bars, k + 1, ~background, bg, fg, out)
             ELSE LET f == IF ~background THEN color[1] ELSE fg
                      b == IF background THEN color[1] ELSE bg
                  IN  CelerityLoop(bars, k + 1, background, b, f,
                          out \o SpanStr(<<b>>, <<f>>, Slice(color, 2, Len(color))))

SplitCelerityHTML(d, s) ==
    IF d = NilBuf THEN Result(d, ErrBuff)
    ELSE LET bars == CelerityFields(s)
         IN  IF Len(bars) = 0 THEN Result(d \o s, Nil)
             ELSE CelerityLoop(bars, 1, FALSE, "k", "w", d)

\* the loop of PCBoardHTML with the foreground left as written
RECURSIVE PCBoardLoopNoUpper(_, _, _)
PCBoardLoopNoUpper(xcodes, k, out) ==
    IF k > Len(xcodes) THEN Result(out, Nil)
    ELSE LET color == xcodes[k]
         IN  IF Len(color) < 2 THEN Result(out, Panic)
             ELSE PCBoardLoopNoUpper(xcodes, k + 1,
                      out \o SpanStr(<<ToUpper(color[1])>>, <<color[2]>>,
                                     Slice(color, 3, Len(color))))

\* the range loop of PCBoardHTML, from the k-th fragment on
RECURSIVE PCBoardLoop(_, _, _)
PCBoardLoop(xcodes, k, out) ==
    IF k > Len(xcodes) THEN Result(out, Nil)
    ELSE LET color == xcodes[k]
         IN  IF Len(color) < 2 THEN Result(out, Panic)
             ELSE PCBoardLoop(xcodes, k + 1,
                      out \o SpanStr(<<ToUpper(color[1])>>, <<ToUpper(color[2])>>,
                                     Slice(color, 3, Len(color))))

SplitPCBoardHTML(d, s) ==
    IF d = NilBuf THEN Result(d, ErrBuff)
    ELSE LET xcodes == PCBoardFields(s)
         IN  IF Len(xcodes) = 0 THEN Result(d \o s, Nil)
             ELSE PCBoardLoop(xcodes, 1, d)

-----------------------------------------------------------------------------
(* Package bbs: the exported renderers, TrimControls, BBS.HTML, BBS.Remove.*)

CelerityHTML(d, s) == IF d = NilBuf THEN Result(d, ErrBuff)
                      ELSE SplitCelerityHTML(d, s)

RenegadeHTML(d, s) == IF d = NilBuf THEN Result(d, ErrBuff)
                      ELSE VBarsHTML(d, s)

PCBoardHTML(d, s) == IF d = NilBuf THEN Result(d, ErrBuff)
                     ELSE SplitPCBoardHTML(d, s)

WildcatHTML(d, s) ==
    IF d = NilBuf THEN Result(d, ErrBuff)
    ELSE SplitPCBoardHTML(d, ReplaceAll("WildcatRe", <<"@", "X">>, TRUE, s))

TelegardHTML(d, s) ==
    IF d = NilBuf THEN Result(d, ErrBuff)
    ELSE SplitPCBoardHTML(d, ReplaceAll("TelegardRe", <<"@", "X">>, TRUE, s))

WWIVHashHTML(d, s) ==
    IF d = NilBuf THEN Result(d, ErrBuff)
    ELSE VBarsHTML(d, ReplaceAll("WWIVHashRe", <<"|", "0">>, TRUE, s))

WWIVHeartHTML(d, s) ==
    IF d = NilBuf THEN Result(d, ErrBuff)
    ELSE VBarsHTML(d, ReplaceAll("WWIVHeartRe", <<"|", "0">>, TRUE, s))

TrimControls(s) == ReplaceAll("ControlsRe", <<>>, FALSE, s)

\* the renderer of a transcodable format
FormatHTML(b, d, s) ==
    CASE b = Celerity  -> CelerityHTML(d, s)
      [] b = PCBoard   -> PCBoardHTML(d, s)
      [] b = Renegade  -> RenegadeHTML(d, s)
      [] b = Telegard  -> TelegardHTML(d, s)
      [] b = Wildcat   -> WildcatHTML(d, s)
      [] b = WWIVHash  -> WWIVHashHTML(d, s)
      [] b = WWIVHeart -> WWIVHeartHTML(d, s)

\* BBS.HTML without its ANSI case: the text falls through to the sink
BBSHTMLAnsiFallsThrough(b, d, s) ==
    IF d = NilBuf THEN Result(d, ErrBuff)
    ELSE LET x == TrimControls(s)
         IN  IF b = ANSI THEN Result(d \o x, Nil)
             ELSE IF b \in Transcodable THEN FormatHTML(b, d, x)
             ELSE Result(d, ErrNone)

BBSHTML(b, d, s) ==
    IF d = NilBuf THEN Result(d, ErrBuff)
    ELSE LET x == TrimControls(s)
         IN  IF b = ANSI THEN Result(d, ErrANSI)
             ELSE IF b \in Transcodable THEN FormatHTML(b, d, x)
             ELSE Result(d, ErrNone)

remove(d, s, expr) ==
    IF d = NilBuf THEN Result(d, ErrBuff)
    ELSE Result(d \o ReplaceAll(expr, <<>>, FALSE, s), Nil)

\* the removal expression BBS.Remove uses for a transcodable format
RemoveRe(b) ==
    CASE b = Celerity  -> "CelerityRe"
      [] b = PCBoard   -> "PCBoardRe"
      [] b = Renegade  -> "RenegadeRe"
      [] b = Telegard  -> "TelegardRe"
      [] b = Wildcat   -> "WildcatRe"
      [] b = WWIVHash  -> "WWIVHashRe"
      [] b = WWIVHeart -> "WWIVHeartRe"

\* BBS.Remove with its last return writing the text as it is
BBSRemoveDefaultWrites(b, d, s) ==
    IF d = NilBuf THEN Result(d, ErrBuff)
    ELSE IF b = ANSI THEN Result(d, ErrANSI)
    ELSE IF b \in Transcodable THEN remove(d, s, RemoveRe(b))
    ELSE Result(d \o s, ErrNone)

BBSRemove(b, d, s) ==
    IF d = NilBuf THEN Result(d, ErrBuff)
    ELSE IF b = ANSI THEN Result(d, ErrANSI)
    ELSE IF b \in Transcodable THEN remove(d, s, RemoveRe(b))
    ELSE Result(d, ErrNone)

\* what Fields returns once Find has returned f and io.ReadAll(&r1) has
\* returned b: the fragments, the format and the error.  A nil slice and an
\* empty one are both <<>>.
FieldsResult(fl, b, e) == [fields |-> fl, bbs |-> b, err |-> e]

\* Fields with the found format handed back next to ErrANSI
FieldsOfKeepsFormat(f, b) ==
    IF ~Valid(f) THEN FieldsResult(<<>>, None, ErrNone)
    ELSE IF f = ANSI THEN FieldsResult(<<>>, f, ErrANSI)
    ELSE IF f = Celerity THEN FieldsResult(CelerityFields(b), f, Nil)
    ELSE IF f \in {PCBoard, Telegard, Wildcat}
         THEN FieldsResult(PCBoardFields(b), f, Nil)
    ELSE FieldsResult(VBars(b), f, Nil)

FieldsOf(f, b) ==
    IF ~Valid(f) THEN FieldsResult(<<>>, None, ErrNone)
    ELSE IF f = ANSI THEN FieldsResult(<<>>, None, ErrANSI)
    ELSE IF f = Celerity THEN FieldsResult(CelerityFields(b), f, Nil)
    ELSE IF f \in {PCBoard, Telegard, Wildcat}
         THEN FieldsResult(PCBoardFields(b), f, Nil)
    ELSE IF f \in {Renegade, WWIVHash, WWIVHeart}
         THEN FieldsResult(VBars(b), f, Nil)
    ELSE FieldsResult(<<>>, None, ErrNone)

\* the embedded file static/css/text_pcboard.css, as one token
StyleSheet == <<"static/css/text_pcboard.css">>

\* BBS.CSS without its test of the sink: the write to a nil buffer aborts
CSSNoNilTest(b, d) == IF d = NilBuf THEN Result(d, Panic)
                      ELSE Result(d \o StyleSheet, Nil)

\* BBS.CSS: the receiver is not looked at
CSS(b, d) == IF d = NilBuf THEN Result(d, ErrBuff)
             ELSE Result(d \o StyleSheet, Nil)

-----------------------------------------------------------------------------
(* Detection (package bbs).                                                *)

\* BBS.Bytes: the toggle sequence of a format
Bytes(b) ==
    CASE b = ANSI                  -> <<ESC, "[">>
      [] b \in {Celerity, Renegade} -> <<"|">>
      [] b = PCBoard               -> <<"@", "X">>
      [] b = Telegard              -> <<GRAVE>>
      [] b = Wildcat               -> <<"@">>
      [] b = WWIVHash              -> <<"|", "#">>
      [] b = WWIVHeart             -> <<ETX>>
      [] OTHER                     -> <<>>

\* fmt.Sprintf("%01d", i) and strconv.Itoa(i), for 0 <= i <= 99
Itoa(i) == IF i < 10 THEN <<Digits[i + 1]>>
           ELSE <<Digits[(i \div 10) + 1], Digits[(i % 10) + 1]>>

\* fmt.Sprintf("%X", n), for 0 <= n <= 15
HexDigit(n) == HexChars[n + 1]

\* bytes.Contains(s, sig ++ t) for some t of T, the test each presence
\* predicate makes in a loop over its code values: the position is chosen
\* first, so that the values are only gone through behind a signature
ContainsCode(s, sig, T) ==
    \E i \in 1..Len(s) : /\ HasPrefixAt(s, i, sig)
                         /\ \E t \in T : HasPrefixAt(s, i + Len(sig), t)

IsCelerity(s) ==
    ContainsCode(s, <<Bytes(Celerity)[1]>>,
                 {<<celerityCodes[k]>> : k \in 1..Len(celerityCodes)})

IsPCBoard(s) ==
    ContainsCode(s, Bytes(PCBoard),
                 {<<HexDigit(bg), HexDigit(fg)>> : bg \in 0..15, fg \in 0..15})

IsRenegade(s) == ContainsCode(s, Bytes(Renegade), {Itoa(i) : i \in 0..23})

IsTelegard(s) == ContainsCode(s, Bytes(Telegard), {Itoa(i) : i \in 0..23})

IsWWIVHash(s) == ContainsCode(s, Bytes(WWIVHash), {Itoa(i) : i \in 0..9})

IsWWIVHeart(s) == ContainsCode(s, Bytes(WWIVHeart), {Itoa(i) : i \in 0..9})

IsWildcat(s) ==
    ContainsCode(s, Bytes(Wildcat),
                 {<<HexDigit(bg), HexDigit(fg)>> \o Bytes(Wildcat) :
                      bg \in 0..15, fg \in 0..15})

Clear == <<"@", "C", "L", "S", "@">>

\* the ASCII white space bytes.TrimSpace cuts
AsciiSpace == {" ", "TAB", LF, "VT", "FF", "CR"}

RECURSIVE TrimLeft(_)
TrimLeft(s) == IF s # <<>> /\ Head(s) \in AsciiSpace THEN TrimLeft(Tail(s)) ELSE s

RECURSIVE TrimRight(_)
TrimRight(s) == IF s # <<>> /\ s[Len(s)] \in AsciiSpace
                THEN TrimRight(Slice(s, 1, Len(s) - 1)) ELSE s

\* bytes.TrimSpace; the empty result stands for the nil it returns
TrimSpace(s) == TrimRight(TrimLeft(s))

Return(b) == [found |-> TRUE, bbs |-> b]

Continue == [found |-> FALSE, bbs |-> None]

\* Inspected with the slice taken one byte early, so that the closing
\* at-sign of the Clear token stays in front of the line
InspectedKeepsAt(line) ==
    LET ts == TrimSpace(line)
    IN  IF Len(ts) > Len(Clear) /\ Slice(ts, 1, Len(Clear)) = Clear
        THEN Slice(ts, Len(Clear), Len(ts))
        ELSE line

\* the bytes the switch of Find inspects for a line: the line itself, or
\* what follows a leading Clear token of the trimmed line
Inspected(line) ==
    LET ts == TrimSpace(line)
    IN  IF Len(ts) > Len(Clear) /\ Slice(ts, 1, Len(Clear)) = Clear
        THEN Slice(ts, Len(Clear) + 1, Len(ts))
        ELSE line

\* FindLine with the blank-line test returning -1 instead of continuing
FindLineBlankStops(line) ==
    LET b == Inspected(line)
    IN  IF TrimSpace(line) = <<>> THEN Return(None)
        ELSE IF Contains(b, Bytes(ANSI)) THEN Return(ANSI)
        ELSE IF Contains(b, Bytes(Celerity))
             THEN IF IsRenegade(b) THEN Return(Renegade)
                  ELSE IF IsCelerity(b) THEN Return(Celerity)
                  ELSE Return(None)
        ELSE IF IsPCBoard(b) THEN Return(PCBoard)
        ELSE IF IsTelegard(b) THEN Return(Telegard)
        ELSE IF IsWildcat(b) THEN Return(Wildcat)
        ELSE IF IsWWIVHash(b) THEN Return(WWIVHash)
        ELSE IF IsWWIVHeart(b) THEN Return(WWIVHeart)
        ELSE Continue

\* FindLine with the vertical-bar case ahead of the ANSI case
FindLineBarFirst(line) ==
    LET b == Inspected(line)
    IN  IF TrimSpace(line) = <<>> THEN Continue
        ELSE IF Contains(b, Bytes(Celerity))
             THEN IF IsRenegade(b) THEN Return(Renegade)
                  ELSE IF IsCelerity(b) THEN Return(Celerity)
                  ELSE Return(None)
        ELSE IF Contains(b, Bytes(ANSI)) THEN Return(ANSI)
        ELSE IF IsPCBoard(b) THEN Return(PCBoard)
        ELSE IF IsTelegard(b) THEN Return(Telegard)
        ELSE IF IsWildcat(b) THEN Return(Wildcat)
        ELSE IF IsWWIVHash(b) THEN Return(WWIVHash)
        ELSE IF IsWWIVHeart(b) THEN Return(WWIVHeart)
        ELSE Continue

\* FindLine with the vertical-bar case going on to the next line when the
\* line is neither Renegade nor Celerity
FindLineBarContinues(line) ==
    LET b == Inspected(line)
    IN  IF TrimSpace(line) = <<>> THEN Continue
        ELSE IF Contains(b, Bytes(ANSI)) THEN Return(ANSI)
        ELSE IF Contains(b, Bytes(Celerity))
             THEN IF IsRenegade(b) THEN Return(Renegade)
                  ELSE IF IsCelerity(b) THEN Return(Celerity)
                  ELSE Continue
        ELSE IF IsPCBoard(b) THEN Return(PCBoard)
        ELSE IF IsTelegard(b) THEN Return(Telegard)
        ELSE IF IsWildcat(b) THEN Return(Wildcat)
        ELSE IF IsWWIVHash(b) THEN Return(WWIVHash)
        ELSE IF IsWWIVHeart(b) THEN Return(WWIVHeart)
        ELSE Continue

\* the body of the scan loop of Find on one line: the value returned, or
\* Continue when the loop goes on to the next line
FindLine(line) ==
    LET b == Inspected(line)
    IN  IF TrimSpace(line) = <<>> THEN Continue
        ELSE IF Contains(b, Bytes(ANSI)) THEN Return(ANSI)
        ELSE IF Contains(b, Bytes(Celerity))
             THEN IF IsRenegade(b) THEN Return(Renegade)
                  ELSE IF IsCelerity(b) THEN Return(Celerity)
                  ELSE Return(None)
        ELSE IF IsPCBoard(b) THEN Return(PCBoard)
        ELSE IF IsTelegard(b) THEN Return(Telegard)
        ELSE IF IsWildcat(b) THEN Return(Wildcat)
        ELSE IF IsWWIVHash(b) THEN Return(WWIVHash)
        ELSE IF IsWWIVHeart(b) THEN Return(WWIVHeart)
        ELSE Continue

\* bufio.ScanLines: dropCR of a line
DropCR(s) == IF s # <<>> /\ s[Len(s)] = "CR" THEN Slice(s, 1, Len(s) - 1) ELSE s

\* the position of the first line feed of s, 0 if there is none
IndexLF(s) == IF LF \in Range(s)
              THEN CHOOSE i \in 1..Len(s) :
                      s[i] = LF /\ \A j \in 1..(i - 1) : s[j] # LF
              ELSE 0

-----------------------------------------------------------------------------
(* Input texts: concatenations of a few pieces, a piece being a character  *)
(* or a complete code of one of the formats.                               *)

Pieces ==
    { <<"<">>, <<"a">>, <<"0">>, <<SEP>>, <<"|">>, <<"@">>,
      <<"@", "X", "0", "a">>,
      <<"@", "x", "7", "B">>,
      <<"|", "0", "7">>, <<"|", "1", "7">>, <<"|", "1", "0">>,
      <<"|", "c">>, <<"|", "S">>,
      <<GRAVE, "0", "7">>, <<GRAVE, "|", "1">>,
      <<"@", "0", "7", "@">>,
      <<"|", "#", "7">>,
      <<ETX, "7">>,
      Clear }

RECURSIVE TextsOf(_, _)
TextsOf(P, n) == IF n = 0 THEN {<<>>}
                 ELSE LET T == TextsOf(P, n - 1)
                      IN  T \cup {t \o p : t \in T, p \in P}

\* the characters of the longer texts
Chars == { <<"|">>, <<"c">>, <<"a">> }

Texts == TextsOf(Pieces, MaxPieces) \cup TextsOf(Chars, MaxChars)

\* a nil sink is rejected before the text is looked at: it is paired with
\* the texts of at most one piece
Sinks(s) == IF s \in TextsOf(Pieces, 1) THEN {<<>>, NilBuf} ELSE {<<>>}

-----------------------------------------------------------------------------
(* The renderers and the registry operations applied to a text.            *)

Idle(o) == /\ pc = "idle"
           /\ op = ""
           /\ op' = o
           /\ pc' = "done"
           /\ UNCHANGED <<ret, src, fields, stream, r1, buf>>

Returns(b, res) == /\ fmt' = b
                   /\ dst' = res.dst
                   /\ err' = res.err

DoCelerityHTML == Idle("CelerityHTML") /\ Returns(Celerity, CelerityHTML(dst, src))

DoPCBoardHTML == Idle("PCBoardHTML") /\ Returns(PCBoard, PCBoardHTML(dst, src))

DoRenegadeHTML == Idle("RenegadeHTML") /\ Returns(Renegade, RenegadeHTML(dst, src))

DoTelegardHTML == Idle("TelegardHTML") /\ Returns(Telegard, TelegardHTML(dst, src))

DoWildcatHTML == Idle("WildcatHTML") /\ Returns(Wildcat, WildcatHTML(dst, src))

DoWWIVHashHTML == Idle("WWIVHashHTML") /\ Returns(WWIVHash, WWIVHashHTML(dst, src))

DoWWIVHeartHTML == Idle("WWIVHeartHTML") /\ Returns(WWIVHeart, WWIVHeartHTML(dst, src))

\* the receivers of the methods of BBS: the formats, -1 and a value past
\* the last format
Receivers == Formats \cup {None, WWIVHeart + 1}

DoBBSHTML == \E b \in Receivers :
                Idle("BBS.HTML") /\ Returns(b, BBSHTML(b, dst, src))

DoBBSRemove == \E b \in Receivers :
                  Idle("BBS.Remove") /\ Returns(b, BBSRemove(b, dst, src))

DoBBSCSS == \E b \in Receivers :
                Idle("BBS.CSS") /\ Returns(b, CSS(b, dst))

\* TrimControls(src): the bytes it returns are recorded as the one element
\* of fields
DoTrimControls == /\ pc = "idle"
                  /\ op = ""
                  /\ op' = "TrimControls"
                  /\ fields' = <<TrimControls(src)>>
                  /\ pc' = "done"
                  /\ UNCHANGED <<ret, src, dst, fmt, err, stream, r1, buf>>

\* a call that neither takes a sink nor returns an error
Call(o) == /\ pc = "idle"
           /\ op = ""
           /\ op' = o
           /\ pc' = "done"
           /\ UNCHANGED <<src, dst, err, stream, r1, buf>>

\* the splitters of internal/split
DoVBars == Call("split.VBars") /\ fields' = VBars(src)
                              /\ UNCHANGED <<fmt, ret>>

DoCelerity == Call("split.Celerity") /\ fields' = CelerityFields(src)
                                    /\ UNCHANGED <<fmt, ret>>

DoPCBoard == Call("split.PCBoard") /\ fields' = PCBoardFields(src)
                                  /\ UNCHANGED <<fmt, ret>>

\* the presence predicates
DoIsRenegade == Call("IsRenegade") /\ ret' = IsRenegade(src)
                                  /\ UNCHANGED <<fmt, fields>>

DoIsPCBoard == Call("IsPCBoard") /\ ret' = IsPCBoard(src)
                                /\ UNCHANGED <<fmt, fields>>

\* the methods of BBS that take no argument
DoValid == \E b \in Receivers :
              Call("BBS.Valid") /\ fmt' = b /\ ret' = Valid(b)
                                /\ UNCHANGED fields

DoName == \E b \in Receivers :
             Call("BBS.Name") /\ fmt' = b /\ ret' = Name(b)
                              /\ UNCHANGED fields

DoString == \E b \in Receivers :
               Call("BBS.String") /\ fmt' = b /\ ret' = String(b)
                                  /\ UNCHANGED fields

\* HTML(nil, src), src a reader over the text: it returns at once
DoHTMLNil == /\ dst = NilBuf
             /\ Idle("HTML")
             /\ Returns(None, Result(dst, ErrBuff))

\* the sink is empty or nil, and a reader holds the text
InitRender == /\ src \in Texts
              /\ dst \in Sinks(src)
              /\ op = ""
              /\ fmt = None
              /\ err = Nil
              /\ fields = <<>>
              /\ stream = src
              /\ r1 = <<>>
              /\ buf = <<>>
              /\ pc = "idle"
              /\ ret = NoValue

NextRender == \/ DoCelerityHTML
              \/ DoPCBoardHTML
              \/ DoRenegadeHTML
              \/ DoTelegardHTML
              \/ DoWildcatHTML
              \/ DoWWIVHashHTML
              \/ DoWWIVHeartHTML
              \/ DoBBSHTML
              \/ DoBBSRemove
              \/ DoBBSCSS
              \/ DoTrimControls
              \/ DoHTMLNil
              \/ DoVBars
              \/ DoCelerity
              \/ DoPCBoard
              \/ DoIsRenegade
              \/ DoIsPCBoard
              \/ DoValid
              \/ DoName
              \/ DoString

SpecRender == InitRender /\ [][NextRender]_vars

-----------------------------------------------------------------------------
(* Find, and HTML(dst, src), over a reader.                                *)
(*                                                                         *)
(* A Read of the reader returns between one and all of the characters not  *)
(* yet read (io.Reader allows short reads); the buffer of the scanner      *)
(* (4096 bytes at first) and its longest line (64 KiB) are larger than any *)
(* text of the model and never limit a read or a line.  HTML and Fields    *)
(* read through an io.TeeReader that copies what is read into r1.          *)

StreamPieces ==
    { <<LF>>, <<" ">>, Clear, <<ESC, "[">>, <<"|", "0">>,
      <<"|", "0", "7">>, <<"|", "c">>,
      <<"@", "X", "0", "7">>,
      <<GRAVE, "0", "7">>,
      <<"@", "0", "7", "@">>, <<"0", "7", "@">>,
      <<"|", "#", "7">>,
      <<ETX, "7">> }

Streams == TextsOf(StreamPieces, MaxStreamPieces)

\* Find(src), HTML(dst, src) with a usable sink: the scanner is set up on
\* the reader.  Find does the same for each of its callers, so the model
\* runs it once, reading through the tee, and lets each caller go on from
\* the value it returns.
CallFind == /\ pc = "idle"
            /\ pc' = "scan"
            /\ UNCHANGED <<ret, src, dst, op, fmt, err, fields, stream, r1, buf>>

\* HTML(nil, src) returns at once
CallHTMLNil == /\ pc = "idle"
               /\ op' = "HTML"
               /\ dst' = NilBuf
               /\ fmt' = None
               /\ err' = ErrBuff
               /\ pc' = "done"
               /\ UNCHANGED <<ret, src, fields, stream, r1, buf>>

\* scanner.Scan finds no complete line in its buffer and reads on
Read == \E n \in 1..Len(stream) :
    /\ pc = "scan"
    /\ IndexLF(buf) = 0
    /\ buf' = buf \o Slice(stream, 1, n)
    /\ r1' = r1 \o Slice(stream, 1, n)
    /\ stream' = Slice(stream, n + 1, Len(stream))
    /\ UNCHANGED <<ret, src, dst, op, fmt, err, fields, pc>>

\* the loop of Find goes on, or Find returns res.bbs
Found(res) == IF res.found
              THEN fmt' = res.bbs /\ pc' = "found"
              ELSE UNCHANGED <<fmt, pc>>

\* scanner.Scan yields the next line of its buffer to the loop of Find
ScanLine == LET i == IndexLF(buf) IN
    /\ pc = "scan"
    /\ i > 0
    /\ buf' = Slice(buf, i + 1, Len(buf))
    /\ Found(FindLine(DropCR(Slice(buf, 1, i - 1))))
    /\ UNCHANGED <<ret, src, dst, op, err, fields, stream, r1>>

\* the reader is at its end: the rest of the buffer is the last line, and
\* with an empty buffer the loop ends and Find returns -1
ScanLast ==
    /\ pc = "scan"
    /\ IndexLF(buf) = 0
    /\ stream = <<>>
    /\ buf' = <<>>
    /\ IF buf = <<>> THEN Found(Return(None)) ELSE Found(FindLine(DropCR(buf)))
    /\ UNCHANGED <<ret, src, dst, op, err, fields, stream, r1>>

\* the caller was Find: the value is returned
FindReturn == /\ pc = "found"
              /\ op' = "Find"
              /\ pc' = "done"
              /\ UNCHANGED <<ret, src, dst, fmt, err, fields, stream, r1, buf>>

\* the caller was HTML: io.ReadAll(&r1), then find.HTML(dst, b)
HTMLRender == LET res == BBSHTML(fmt, dst, r1) IN
    /\ pc = "found"
    /\ op' = "HTML"
    /\ dst' = res.dst
    /\ err' = res.err
    /\ r1' = <<>>
    /\ pc' = "done"
    /\ UNCHANGED <<ret, src, fmt, fields, stream, buf>>

\* the caller was Fields: io.ReadAll(&r1), then the splitter of the format
FieldsReturn == LET res == FieldsOf(fmt, r1) IN
    /\ pc = "found"
    /\ op' = "Fields"
    /\ fields' = res.fields
    /\ fmt' = res.bbs
    /\ err' = res.err
    /\ r1' = <<>>
    /\ pc' = "done"
    /\ UNCHANGED <<ret, src, dst, stream, buf>>

InitFind == /\ src \in Streams
            /\ stream = src
            /\ dst = <<>>
            /\ op = ""
            /\ fmt = None
            /\ err = Nil
            /\ fields = <<>>
            /\ r1 = <<>>
            /\ buf = <<>>
            /\ pc = "idle"
            /\ ret = NoValue

NextFind == \/ CallFind
            \/ CallHTMLNil
            \/ Read
            \/ ScanLine
            \/ ScanLast
            \/ FieldsReturn
            \/ FindReturn
            \/ HTMLRender

SpecFind == InitFind /\ [][NextFind]_vars

-----------------------------------------------------------------------------
(* Reading a rendering.                                                    *)

\* the seven per-format renderers of package bbs
Renderers == {"CelerityHTML", "PCBoardHTML", "RenegadeHTML", "TelegardHTML",
              "WildcatHTML", "WWIVHashHTML", "WWIVHeartHTML"}

\* a renderer, or BBS.HTML on a transcodable format, ran on a usable sink
Rendered == /\ pc = "done"
            /\ op \in Renderers \cup {"BBS.HTML"}
            /\ fmt \in Transcodable
            /\ dst # NilBuf

\* the characters html/template replaces by an entity in the output
Special == {"<", ">", "&", "'", "\""}

UnescapeToken(t) ==
    CASE t = "&lt;"  -> "<"
      [] t = "&gt;"  -> ">"
      [] t = "&amp;" -> "&"
      [] t = "&#39;" -> "'"
      [] t = "&#34;" -> "\""
      [] t = "&#43;" -> "+"
      [] OTHER       -> t

\* the text a browser shows: the output without its tags, entities decoded
RECURSIVE VisibleFrom(_, _, _)
VisibleFrom(d, i, inTag) ==
    IF i > Len(d) THEN <<>>
    ELSE IF d[i] \in {"<i class=\"P", "<i class=\"PB"} THEN VisibleFrom(d, i + 1, TRUE)
    ELSE IF d[i] = "\">" THEN VisibleFrom(d, i + 1, FALSE)
    ELSE IF d[i] = "</i>" THEN VisibleFrom(d, i + 1, FALSE)
    ELSE IF inTag THEN VisibleFrom(d, i + 1, TRUE)
    ELSE <<UnescapeToken(d[i])>> \o VisibleFrom(d, i + 1, FALSE)

Visible(d) == VisibleFrom(d, 1, FALSE)

\* the number of spans in the output
SpanCount(d) == Cardinality({i \in 1..Len(d) : d[i] = "</i>"})

\* the position of the first match of re in s, 0 if there is none
FirstMatch(re, s) ==
    IF HasMatch(re, s) THEN CHOOSE i \in 1..Len(s) :
                                /\ MatchLen(re, s, i) > 0
                                /\ \A j \in 1..(i - 1) : MatchLen(re, s, j) = 0
    ELSE 0

\* the grammar of the splitter a format is rendered with
SplitRe(b) == CASE b = Celerity -> "CelerityRe"
                [] b \in {PCBoard, Telegard, Wildcat} -> "PCBoardRe"
                [] b \in {Renegade, WWIVHash, WWIVHeart} -> "VBarsRe"

-----------------------------------------------------------------------------
(* Claims about the renderers.                                             *)

\* C1: the output of a renderer never holds a raw <, >, &, ' or ": each
\* appears only as its entity, also when the text has no code of the format.
C1_NeverRaw == Rendered => \A i \in 1..Len(dst) : dst[i] \notin Special

\* a text free of the private marker of the splitters
MarkerFree(s) == SEP \notin Range(s)

\* C2: a renderer called on a text with no match of its format's own
\* grammar writes the text unchanged and returns no error (stated for the
\* texts that do not hold the marker).
C2_Passthrough ==
    (Rendered /\ op \in Renderers /\ MarkerFree(src)
              /\ ~HasMatch(RemoveRe(fmt), src))
        => (dst = src /\ err = Nil)

\* C3: the visible text of the rendering of a format equals what the
\* format's Remove writes for the same text (stated for the texts that do
\* not hold the marker).
C3_ContentPreserved ==
    (Rendered /\ op \in Renderers /\ MarkerFree(src) /\ err = Nil)
        => Visible(dst) = BBSRemove(fmt, <<>>, src).dst

\* C4: text in front of the first code is plain passthrough: the spans are
\* those of the text from its first code on, and none is made of the prefix.
C4_PrefixIsPlain ==
    (Rendered /\ op \in Renderers /\ MarkerFree(src)
              /\ FirstMatch(RemoveRe(fmt), src) > 1
              /\ ~HasMatch(SplitRe(fmt), Slice(src, 1, FirstMatch(RemoveRe(fmt), src) - 1)))
        => LET i    == FirstMatch(RemoveRe(fmt), src)
               rest == FormatHTML(fmt, <<>>, Slice(src, i, Len(src))).dst
               n    == Len(dst) - Len(rest)
           IN  /\ err = Nil
               /\ n >= 0
               /\ Slice(dst, n + 1, Len(dst)) = rest
               /\ SpanCount(Slice(dst, 1, n)) = 0

\* C5: with a usable sink a renderer returns nil or a write error for every
\* text; it never aborts (stated for the texts that do not hold the marker).
C5_NeverAborts == (Rendered /\ MarkerFree(src)) => err # Panic

-----------------------------------------------------------------------------
(* Claims about Find and HTML(dst, src).                                   *)

\* Find has returned, to its caller or to HTML
FindReturned == \/ pc = "found"
                \/ pc = "done" /\ op \in {"Find", "HTML"} /\ dst # NilBuf

\* the lines bufio.ScanLines cuts a text into
RECURSIVE LinesOf(_, _)
LinesOf(s, cur) ==
    IF s = <<>> THEN (IF cur = <<>> THEN <<>> ELSE <<DropCR(cur)>>)
    ELSE IF Head(s) = LF THEN <<DropCR(cur)>> \o LinesOf(Tail(s), <<>>)
    ELSE LinesOf(Tail(s), Append(cur, Head(s)))

Lines(s) == LinesOf(s, <<>>)

\* a line holds evidence: it is not blank, and the ANSI signature, the
\* vertical bar or one of the presence predicates matches on it
Evidence(line) ==
    LET b == Inspected(line)
    IN  /\ \E i \in 1..Len(line) : line[i] \notin AsciiSpace
        /\ \/ Contains(b, <<ESC, "[">>)
           \/ Contains(b, <<"|">>)
           \/ IsPCBoard(b) \/ IsTelegard(b) \/ IsWildcat(b)
           \/ IsWWIVHash(b) \/ IsWWIVHeart(b)

\* the index of the first line of s that holds evidence, 0 if none does
FirstEvidence(s) ==
    LET L == Lines(s)
        E == {k \in 1..Len(L) : Evidence(L[k])}
    IN  IF E = {} THEN 0 ELSE CHOOSE k \in E : \A j \in E : k <= j

\* the first line of s that holds evidence
EvidenceLine(s) == Lines(s)[FirstEvidence(s)]

\* C6: Find returns the classification of the first line that holds
\* evidence, whatever lines come before and after it, and -1, which is not
\* a valid format, when no line holds evidence.
C6_FirstEvidenceLine ==
    FindReturned =>
        LET k   == FirstEvidence(src)
            res == FindLine(Lines(src)[k])
        IN  IF k = 0
            THEN fmt = None /\ ~Valid(fmt)
            ELSE res.found /\ fmt = res.bbs

\* C6 witness: Find has skipped a line and classified a later one
C6_Witness == /\ FindReturned
              /\ Valid(fmt)
              /\ FirstEvidence(src) >= 2

\* C7: when the first evidence line holds the ANSI signature Find returns
\* ANSI, whatever other codes the line or later lines hold, also behind a
\* leading Clear token.
C7_AnsiHardStop ==
    FindReturned =>
        LET k == FirstEvidence(src)
        IN  (k > 0 /\ Contains(Lines(src)[k], <<ESC, "[">>)) => fmt = ANSI

\* C7 witness: ANSI returned for a line that starts with the Clear token
\* and holds a vertical-bar code next to the ANSI signature
C7_Witness == /\ FindReturned
              /\ fmt = ANSI
              /\ FirstEvidence(src) > 0
              /\ HasPrefixAt(EvidenceLine(src), 1, Clear)
              /\ HasMatch("RenegadeRe", EvidenceLine(src))

\* C8: when the first evidence line holds a vertical bar and no ANSI
\* signature, Find returns Renegade if the line is Renegade, else Celerity
\* if it is Celerity, else -1 at once; later lines are not examined.
C8_BarBranch ==
    FindReturned =>
        LET k    == FirstEvidence(src)
            line == Lines(src)[k]
            b    == Inspected(line)
        IN  (k > 0 /\ Contains(line, <<"|">>) /\ ~Contains(line, <<ESC, "[">>))
                => /\ fmt = IF IsRenegade(b) THEN Renegade
                            ELSE IF IsCelerity(b) THEN Celerity
                            ELSE None
                   /\ fmt \in {Renegade, Celerity, None}

\* C8 witness: -1 returned for a bare vertical bar although a later line
\* holds a PCBoard code
C8_Witness == /\ FindReturned
              /\ fmt = None
              /\ FirstEvidence(src) > 0
              /\ Contains(EvidenceLine(src), <<"|">>)
              /\ \E k \in (FirstEvidence(src) + 1)..Len(Lines(src)) :
                    IsPCBoard(Lines(src)[k])

\* C9: a stream whose first evidence line holds a WWIV hash code and no
\* code of another format is detected as WWIVHash.
C9_WWIVHashDetected ==
    FindReturned =>
        LET k    == FirstEvidence(src)
            line == Lines(src)[k]
        IN  (/\ k > 0
             /\ HasMatch("WWIVHashRe", line)
             /\ ~Contains(line, <<ESC, "[">>)
             /\ \A b \in Transcodable \ {WWIVHash} : ~HasMatch(RemoveRe(b), line))
                => fmt = WWIVHash

\* C10: after HTML(dst, src) returns successfully every character of the
\* reader has been consumed and the whole content has been rendered.
C10_WholeReaderRendered ==
    (pc = "done" /\ op = "HTML" /\ err = Nil)
        => /\ stream = <<>>
           /\ dst = BBSHTML(fmt, <<>>, src).dst

-----------------------------------------------------------------------------
(* Claims about Fields and the results of HTML(dst, src).                  *)

\* the part of the reader that was read through the tee
Consumed == Slice(src, 1, Len(src) - Len(stream))

\* C11: when Find yields none Fields returns (no fragments, -1, ErrNone),
\* when Find yields ANSI it returns (no fragments, -1, ErrANSI); in neither
\* case does it return fragments or a valid format.
C11_FieldsErrors ==
    [][(pc = "found" /\ op' = "Fields") =>
          /\ fmt = None => (fields' = <<>> /\ fmt' = None /\ err' = ErrNone)
          /\ fmt = ANSI => (fields' = <<>> /\ fmt' = None /\ err' = ErrANSI)
          /\ fmt \in {None, ANSI} => ~Valid(fmt')]_vars

\* C11 witness: Fields has returned ErrANSI for a stream with the ANSI
\* signature
C11_Witness == /\ pc = "done"
               /\ op = "Fields"
               /\ err = ErrANSI
               /\ Contains(src, <<ESC, "[">>)

\* the fragments of the codes of grammar re in s: the payload of each code
\* followed by the literal text up to the next code
RECURSIVE CodeFragmentsFrom(_, _, _, _)
CodeFragmentsFrom(re, s, i, cur) ==
    IF i > Len(s) THEN cur
    ELSE LET n == MatchLen(re, s, i)
         IN  IF n > 0
             THEN cur \o CodeFragmentsFrom(re, s, i + n, <<Groups(re, s, i)>>)
             ELSE CodeFragmentsFrom(re, s, i + 1,
                      IF cur = <<>> THEN <<>> ELSE <<Append(cur[1], s[i])>>)

CodeFragments(re, s) == CodeFragmentsFrom(re, s, 1, <<>>)

\* C12: when Fields returns a nil error and a format F, the fragments are
\* not empty and are those of the codes of F in the stream, for each of the
\* seven transcodable formats (stated for the streams that begin with a
\* code of F).
C12_FieldsFragments ==
    (/\ pc = "done"
     /\ op = "Fields"
     /\ err = Nil
     /\ MatchLen(RemoveRe(fmt), Consumed, 1) > 0)
        => /\ fields # <<>>
           /\ fields = CodeFragments(RemoveRe(fmt), Consumed)

\* C13: HTML(dst, src) with a usable sink returns the format Find detected
\* and the error: ErrANSI for ANSI and ErrNone for none, with nothing
\* written, and for a transcodable format the result of its renderer.
C13_HTMLReturns ==
    [][(pc = "found" /\ op' = "HTML") =>
          /\ fmt' = fmt
          /\ fmt = ANSI => (err' = ErrANSI /\ dst' = dst)
          /\ fmt = None => (err' = ErrNone /\ dst' = dst)
          /\ fmt \in Transcodable =>
                Result(dst', err') = FormatHTML(fmt, dst, TrimControls(r1))]_vars

\* C13 witness: HTML has returned (ANSI, ErrANSI) and the sink is empty
C13_Witness == /\ pc = "done"
               /\ op = "HTML"
               /\ fmt = ANSI
               /\ err = ErrANSI
               /\ dst = <<>>

-----------------------------------------------------------------------------
(* Claims about the state of the renderers.                                *)

\* a renderer named by ops ran on a usable sink and on a text without the
\* marker
Ran(ops) == /\ pc = "done"
            /\ op \in ops
            /\ dst # NilBuf
            /\ MarkerFree(src)

\* the text VBarsHTML is given by the renderer op
BarsText(o, s) ==
    CASE o = "RenegadeHTML"  -> s
      [] o = "WWIVHashHTML"  -> ReplaceAll("WWIVHashRe", <<"|", "0">>, TRUE, s)
      [] o = "WWIVHeartHTML" -> ReplaceAll("WWIVHeartRe", <<"|", "0">>, TRUE, s)

\* the value of the code a fragment begins with
BarValue(frag) == 10 * DigitVal(frag[1]) + DigitVal(frag[2])

\* the value of the last of the first k codes that lies in R, 0 if none does
LastValueIn(F, k, R) ==
    LET J == {j \in 1..k : BarValue(F[j]) \in R}
    IN  IF J = {} THEN 0
        ELSE BarValue(F[CHOOSE j \in J : \A i \in J : i <= j])

\* one span for each code: the last background and the last foreground
\* code seen so far, then the text behind the code
RECURSIVE BarSpans(_, _)
BarSpans(F, k) ==
    IF k > Len(F) THEN <<>>
    ELSE SpanInt(LastValueIn(F, k, 16..23), LastValueIn(F, k, 0..15),
                 Slice(F[k], 3, Len(F[k]))) \o BarSpans(F, k + 1)

Classes(d) ==
    LET I == {i \in 1..Len(d) : d[i] = "<i class=\"PB"}
        nth[k \in 1..Cardinality(I)] ==
            CHOOSE i \in I : Cardinality({j \in I : j <= i}) = k
    IN  [k \in 1..Cardinality(I) |-> <<d[nth[k] + 1], d[nth[k] + 3]>>]

\* the classes the Celerity codes of values L give from the k-th on: the
\* swap code flips the toggle, any other code sets the selected channel
RECURSIVE CelerityClasses(_, _, _, _, _)
CelerityClasses(L, k, background, bg, fg) ==
    IF k > Len(L) THEN <<>>
    ELSE IF L[k] = "S" THEN CelerityClasses(L, k + 1, ~background, bg, fg)
    ELSE LET f == IF background THEN fg ELSE L[k]
             b == IF background THEN L[k] ELSE bg
         IN  <<<<b, f>>>> \o CelerityClasses(L, k + 1, background, b, f)

\* C15: the Celerity renderer starts at foreground w, background k and the
\* toggle on the foreground; a swap code flips the toggle and emits no
\* span; any other code sets the selected channel only and emits one span
\* with the state after it (stated for the texts that begin with a code).
C15_CelerityState ==
    LET F == CodeFragments("CelerityRe", src)
        L == [k \in 1..Len(F) |-> F[k][1]]
    IN  (Ran({"CelerityHTML"}) /\ MatchLen("CelerityRe", src, 1) > 0)
            => /\ err = Nil
               /\ Classes(dst) = CelerityClasses(L, 1, FALSE, "k", "w")

\* the spans of the PCBoard codes: each from its own two digits
RECURSIVE HexSpans(_, _)
HexSpans(F, k) ==
    IF k > Len(F) THEN <<>>
    ELSE SpanStr(<<ToUpper(F[k][1])>>, <<ToUpper(F[k][2])>>,
                 Slice(F[k], 3, Len(F[k]))) \o HexSpans(F, k + 1)

-----------------------------------------------------------------------------
(* Claims about Remove, the dispatch, the nil sink and TrimControls.       *)

\* C17: what F.Remove writes holds no occurrence of F's code grammar, for
\* every transcodable format F and every text.
C17_RemoveLeavesNoCode ==
    (pc = "done" /\ op = "BBS.Remove" /\ fmt \in Transcodable /\ dst # NilBuf)
        => ~HasMatch(RemoveRe(fmt), dst)

\* C18: BBS.HTML and BBS.Remove return ErrANSI on ANSI and an error on a
\* value that is not a format, and the sink holds after the call what it
\* held before.
C18_UnsupportedDispatch ==
    [][(/\ pc = "idle"
        /\ op' \in {"BBS.HTML", "BBS.Remove"}
        /\ dst # NilBuf
        /\ fmt' \notin Transcodable)
          => /\ dst' = dst
             /\ fmt' = ANSI => err' = ErrANSI
             /\ fmt' \notin Formats => err' \notin {Nil, Panic}]_vars

\* C18 witness: BBS.Remove was called on a value past the last format with
\* a text that holds a code
C18_Witness == /\ pc = "done"
               /\ op = "BBS.Remove"
               /\ fmt = WWIVHeart + 1
               /\ err = ErrNone
               /\ src = <<"|", "0", "7">>
               /\ dst = <<>>

\* C19: every operation that takes a sink returns ErrBuff when the sink is
\* nil, for every receiver and every text, without aborting and without
\* reading the reader.
C19_NilSink ==
    [][(/\ pc = "idle"
        /\ pc' = "done"
        /\ dst = NilBuf
        /\ op' \in Renderers \cup {"BBS.HTML", "BBS.Remove", "BBS.CSS", "HTML"})
          => /\ err' = ErrBuff
             /\ dst' = NilBuf
             /\ stream' = stream]_vars

\* C19 witness: BBS.CSS was called with a nil sink
C19_Witness == /\ pc = "done"
               /\ op = "BBS.CSS"
               /\ dst = NilBuf
               /\ err = ErrBuff

\* s without the run of control tokens it begins with
RECURSIVE TrimLeading(_)
TrimLeading(s) ==
    LET n == MatchLen("ControlsRe", s, 1)
    IN  IF n > 0 THEN TrimLeading(Slice(s, n + 1, Len(s))) ELSE s

\* C20: TrimControls returns the text without its leading control tokens;
\* from the first other character on, a later control token included, the
\* text is returned unchanged.
C20_TrimsLeadingOnly ==
    (pc = "done" /\ op = "TrimControls") => fields = <<TrimLeading(src)>>

-----------------------------------------------------------------------------
(* Claims about the presence predicates and the methods of BBS.            *)

\* a vertical bar followed by a two-digit value from 00 to 23 begins at i
PaddedBar(s, i) ==
    /\ At(s, i) = "|"
    /\ IsDigit(At(s, i + 1))
    /\ IsDigit(At(s, i + 2))
    /\ 10 * DigitVal(At(s, i + 1)) + DigitVal(At(s, i + 2)) <= 23

\* C21: IsRenegade(src) is true exactly when src holds a vertical bar
\* followed by a zero-padded two-digit value from 00 to 23; a bar followed
\* by one digit and a non-digit, or by a greater value, is not reported.
C21_RenegadeFullyFormed ==
    (pc = "done" /\ op = "IsRenegade")
        => (ret <=> \E i \in 1..Len(src) : PaddedBar(src, i))

\* @X in either case followed by two hexadecimal digits begins at i
HexPairCode(s, i) ==
    /\ At(s, i) = "@"
    /\ ToUpper(At(s, i + 1)) = "X"
    /\ ToUpper(At(s, i + 2)) \in Range(HexChars)
    /\ ToUpper(At(s, i + 3)) \in Range(HexChars)

\* C22: for a text in which no @X is followed by two hexadecimal digits,
\* IsPCBoard is false, the scan of Find does not return PCBoard for the
\* text, and PCBoardHTML writes the text as it is, without a span.
C22_NoFalsePCBoard ==
    (pc = "done" /\ \A i \in 1..Len(src) : ~HexPairCode(src, i))
        => /\ op = "IsPCBoard" => (ret = FALSE /\ FindLine(src).bbs # PCBoard)
           /\ (op = "PCBoardHTML" /\ dst # NilBuf)
                 => (err = Nil /\ dst = src /\ SpanCount(dst) = 0)

\* C23: Valid is true exactly for the values 0..7; Name and String return
\* the empty string for every other value and a non-empty string for each
\* of the eight, and never index outside their tables.
C23_ValidNameString ==
    /\ (pc = "done" /\ op = "BBS.Valid") => (ret <=> fmt \in 0..7)
    /\ (pc = "done" /\ op \in {"BBS.Name", "BBS.String"})
          => /\ ret # Panic
             /\ fmt \in 0..7 => ret # ""
             /\ fmt \notin 0..7 => ret = ""

\* C23 witness: Name was called on the last format
C23_Witness == /\ pc = "done"
               /\ op = "BBS.Name"
               /\ fmt = WWIVHeart
               /\ ret = "WWIV HEART"

-----------------------------------------------------------------------------
(* Claims about the splitters.                                             *)

Splitters == {"split.VBars", "split.Celerity", "split.PCBoard"}

\* the grammar of a splitter, or of the renderer built on it
GrammarOf(o) ==
    CASE o \in {"split.VBars", "RenegadeHTML"}    -> "VBarsRe"
      [] o \in {"split.Celerity", "CelerityHTML"} -> "CelerityRe"
      [] o \in {"split.PCBoard", "PCBoardHTML"}   -> "PCBoardRe"

\* C24: for a text that begins with a code of its grammar a splitter
\* returns one fragment for each code, in order, the payload of the code
\* followed by the literal text up to the next code (the payload alone when
\* a code or the end of the text follows); for a text with no code it
\* returns an empty sequence.
C24_FragmentSequence ==
    (pc = "done" /\ op \in Splitters)
        => LET re == GrammarOf(op)
           IN  /\ ~HasMatch(re, src) => fields = <<>>
               /\ MatchLen(re, src, 1) > 0 => fields = CodeFragments(re, src)

\* the fragments of s cut at the codes of re and nowhere else: the text in
\* front of the first code, if any, and the fragments of the codes
CutAtCodes(re, s) ==
    LET i == FirstMatch(re, s)
    IN  IF i = 0 THEN <<>>
        ELSE (IF i > 1 THEN <<Slice(s, 1, i - 1)>> ELSE <<>>)
                 \o CodeFragments(re, s)

\* C25: the marker U+FFFF in the literal content of a text does not change
\* what the splitters return: a text with the marker and no code gives no
\* fragment and is rendered as it is, and the content is cut at the codes
\* only.
C25_MarkerInContent ==
    (pc = "done" /\ SEP \in Range(src))
        => /\ op \in Splitters => fields = CutAtCodes(GrammarOf(op), src)
           /\ (/\ op \in {"RenegadeHTML", "CelerityHTML", "PCBoardHTML"}
               /\ dst # NilBuf
               /\ ~HasMatch(GrammarOf(op), src))
                 => (err = Nil /\ dst = src)

-----------------------------------------------------------------------------
(* Claims about the grammars.                                              *)

\* s without its codes of a vertical bar and a value from 00 to 23
RECURSIVE StripPadded(_, _)
StripPadded(s, i) ==
    IF i > Len(s) THEN <<>>
    ELSE IF PaddedBar(s, i) THEN StripPadded(s, i + 3)
    ELSE <<s[i]>> \o StripPadded(s, i + 1)

\* C26: VBars, VBarsHTML and Renegade.Remove treat as a code every vertical
\* bar followed by a two-digit value from 00 to 23, all 24 values, and no
\* other sequence (stated for the texts that do not hold the marker).
C26_BarGrammar ==
    LET coded == \E i \in 1..Len(src) : PaddedBar(src, i)
    IN  (pc = "done" /\ MarkerFree(src))
            => /\ op = "split.VBars" => (fields # <<>> <=> coded)
               /\ (op = "RenegadeHTML" /\ dst # NilBuf)
                     => (dst = src <=> ~coded)
               /\ (op = "BBS.Remove" /\ fmt = Renegade /\ dst # NilBuf)
                     => dst = StripPadded(src, 1)

\* C27: a swap code of Celerity never becomes a colour: no span of the
\* rendering has the class PFS or PBS, whatever follows the swap code
\* (stated for the texts that do not hold the marker).
C27_SwapNeverAColour ==
    Ran({"CelerityHTML"})
        => \A k \in 1..Len(Classes(dst)) :
              Classes(dst)[k][1] # "S" /\ Classes(dst)[k][2] # "S"

\* what Find returns for a stream of the single line L
FindOfLine(L) == LET res == FindLine(L)
                 IN  IF res.found THEN res.bbs ELSE None

\* the stream of the model is the Clear token followed by a single line
ClearThenLine == /\ FindReturned
                 /\ HasPrefixAt(src, 1, Clear)
                 /\ \A i \in 1..Len(src) : src[i] # LF

\* the single line that follows the Clear token of the stream
AfterClear == Slice(src, Len(Clear) + 1, Len(src))

\* C28 as stated: for every single line L, Find on the Clear token followed
\* by L returns what Find returns on L alone.
C28_ClearAnyLine ==
    ClearThenLine => fmt = FindOfLine(AfterClear)

\* C28 amended: for every single line L whose trimmed text does not itself
\* begin with the Clear token, Find on the Clear token followed by L returns
\* what Find returns on L alone; the closing at-sign of the token forms no
\* Wildcat code with what follows, and the token alone yields none.
C28_ClearPrefixIgnored ==
    (ClearThenLine /\ ~HasPrefixAt(TrimSpace(AfterClear), 1, Clear))
        => fmt = FindOfLine(AfterClear)

\* C28 witness: the token and the characters after it spell a Wildcat
\* code, the line after the token holds no code, and Find returned none
C28_Witness == /\ ClearThenLine
               /\ ~HasPrefixAt(TrimSpace(AfterClear), 1, Clear)
               /\ IsWildcat(src)
               /\ ~IsWildcat(AfterClear)
               /\ fmt = None


\* the place of a format in the order Find tests the signatures in: the
\* two vertical-bar formats share a signature and a place
Precedence(b) == CASE b = ANSI -> 0
                   [] b \in {Celerity, Renegade} -> 1
                   [] b = PCBoard -> 2
                   [] b = Telegard -> 3
                   [] b = Wildcat -> 4
                   [] b = WWIVHash -> 5
                   [] b = WWIVHeart -> 6

\* s holds a code of the grammar of b and the signature of no format that
\* Find tests before b
OnlyCodesOf(b, s) ==
    /\ HasMatch(RemoveRe(b), s)
    /\ \A g \in Formats : Precedence(g) < Precedence(b) => ~Contains(s, Bytes(g))

\* C29: when Find returns a transcodable format for a text, the renderer
\* of that format finds a code in the same text and writes at least one
\* span, never the text as it is; and a single-line text (the Clear token
\* of C28 aside) that holds a code of a format and no signature of an
\* earlier format is never classified as none.
C29_DetectionAgreesWithRendering ==
    FindReturned =>
        /\ fmt \in Transcodable =>
               LET res == BBSHTML(fmt, <<>>, src)
               IN  /\ HasMatch(RemoveRe(fmt), src)
                   /\ SpanCount(res.dst) >= 1
                   /\ res.dst # src
        /\ ( /\ \A i \in 1..Len(src) : src[i] # LF
             /\ ~HasPrefixAt(TrimSpace(src), 1, Clear)
             /\ \E b \in Transcodable : OnlyCodesOf(b, src) ) => fmt # None

\* the alias renderers and the base renderer each is defined by
Aliases == {"TelegardHTML", "WildcatHTML", "WWIVHashHTML", "WWIVHeartHTML"}

\* the length of the code of the alias format of renderer o at position i
\* of s, 0 if there is none: a grave accent and two hex digits, two hex
\* digits between at-signs, a bar and a hash and a digit, ETX and a digit
AliasCode(o, s, i) ==
    CASE o = "TelegardHTML" ->
            IF At(s, i) = GRAVE /\ IsHex(At(s, i + 1)) /\ IsHex(At(s, i + 2))
            THEN 3 ELSE 0
      [] o = "WildcatHTML" ->
            IF /\ At(s, i) = "@" /\ IsHex(At(s, i + 1)) /\ IsHex(At(s, i + 2))
               /\ At(s, i + 3) = "@"
            THEN 4 ELSE 0
      [] o = "WWIVHashHTML" ->
            IF At(s, i) = "|" /\ At(s, i + 1) = "#" /\ IsDigit(At(s, i + 2))
            THEN 3 ELSE 0
      [] o = "WWIVHeartHTML" ->
            IF At(s, i) = ETX /\ IsDigit(At(s, i + 1)) THEN 2 ELSE 0

\* the code of the base format that stands for the alias code at i
BaseCode(o, s, i) ==
    CASE o = "TelegardHTML"  -> <<"@", "X", s[i + 1], s[i + 2]>>
      [] o = "WildcatHTML"   -> <<"@", "X", s[i + 1], s[i + 2]>>
      [] o = "WWIVHashHTML"  -> <<"|", "0", s[i + 2]>>
      [] o = "WWIVHeartHTML" -> <<"|", "0", s[i + 1]>>

\* s from position i on with each alias code rewritten to its base code
RECURSIVE NormalisedFrom(_, _, _)
NormalisedFrom(o, s, i) ==
    IF i > Len(s) THEN <<>>
    ELSE IF AliasCode(o, s, i) > 0
         THEN BaseCode(o, s, i) \o NormalisedFrom(o, s, i + AliasCode(o, s, i))
         ELSE <<s[i]>> \o NormalisedFrom(o, s, i + 1)

\* the rendering of the base format for the normalised text
BaseRendering(o, s) ==
    IF o \in {"TelegardHTML", "WildcatHTML"}
    THEN PCBoardHTML(<<>>, NormalisedFrom(o, s, 1))
    ELSE RenegadeHTML(<<>>, NormalisedFrom(o, s, 1))

\* C30: for every text an alias renderer writes what the renderer of its
\* base format writes for the text with each alias code rewritten: a
\* Telegard or Wildcat code of hex digits b and f to @Xbf, a WWIV code of
\* digit d to |0d.
C30_AliasAsBase ==
    (pc = "done" /\ op \in Aliases /\ dst # NilBuf)
        => Result(dst, err) = BaseRendering(op, src)

=============================================================================
